---- MODULE Spec2Model ----
(***************************************************************************)
(* A model of rocksdb's TableBuilder (table/table_builder.cc): the state   *)
(* of TableBuilder::Rep, the append-only sink it writes to, the filter     *)
(* block builder it drives, and the handlers Add, Flush, Finish, Abandon.  *)
(*                                                                         *)
(* Collaborators that are not part of table_builder.cc (the comparator,    *)
(* BlockBuilder's size estimate, the codecs, the sink) are modelled by     *)
(* their contracts: every result a contract allows is a possible outcome.  *)
(***************************************************************************)
EXTENDS Integers, Sequences, FiniteSets, TLC

\* ------------------------------------------------------------------ bounds
\* Add is called at most MaxEntries times on one builder.
MaxEntries == 3
\* At most MaxClosedCalls calls are made on a builder that is closed.
MaxClosedCalls == 1
\* ChangeOptions is called at most MaxOptionChanges times on one builder.
MaxOptionChanges == 1

\* ------------------------------------------------------- program constants
\* table/format.h: 1-byte type + 32-bit crc (used at table_builder.cc:283).
kBlockTrailerSize == 5
\* Footer::kEncodedLength: two padded handles (2*20) + 8-byte magic.
kFooterEncodedLength == 48
\* enum CompressionType (rocksdb/options.h), the tag stored in the trailer.
kNoCompression == 0
kSnappyCompression == 1
kZlibCompression == 2
kBZip2Compression == 3
CompressionTypes ==
  {kNoCompression, kSnappyCompression, kZlibCompression, kBZip2Compression}
\* What a read one past the end of compression_per_level may yield besides a
\* valid enumerator: a value outside the enum.
OutOfEnumTypes == {255}
Compressing == {kSnappyCompression, kZlibCompression, kBZip2Compression}

\* --------------------------------------------------------------- the keys
\* The keys passed to Add, and returned by the comparator: byte strings.
Keys == {<<1>>, <<1, 2>>, <<2>>, <<2, 1>>}
EmptyKey == <<>>
\* The sizes a value passed to Add may have.
ValueSizes == {3}

\* Comparator::Compare of BytewiseComparator: <0, 0, >0.
RECURSIVE Compare(_, _)
Compare(a, b) ==
  IF a = <<>> THEN (IF b = <<>> THEN 0 ELSE -1)
  ELSE IF b = <<>> THEN 1
  ELSE IF Head(a) < Head(b) THEN -1
  ELSE IF Head(a) > Head(b) THEN 1
  ELSE Compare(Tail(a), Tail(b))

\* Comparator::FindShortestSeparator(start, limit): by contract any key in
\* [start, limit); the comparator may also leave start unchanged.
FindShortestSeparator(start, limit) ==
  {s \in Keys : Compare(s, start) >= 0 /\ Compare(s, limit) < 0} \cup {start}

\* Comparator::FindShortSuccessor(key): by contract any key >= key.
FindShortSuccessor(key) ==
  {s \in Keys : Compare(s, key) >= 0} \cup {key}

\* ---------------------------------------------------------------- Status
OK == [code |-> "OK", at |-> "none"]
\* The error a failed sink call returns; `at` tells the calls apart.
IOError(at) == [code |-> "IOError", at |-> at]

\* ----------------------------------------------------------- BlockBuilder
\* A block under construction is the sequence of its entries
\* [key, value_size] (data block) or [key, handle] (index block).
\* BlockBuilder::CurrentSizeEstimate of an empty block: the restart array
\* and its count.
BlockOverhead == 4

RECURSIVE SumSizes(_)
SumSizes(entries) ==
  IF entries = <<>> THEN 0
  ELSE Head(entries).key_size + Head(entries).value_size
         + SumSizes(Tail(entries))

\* BlockBuilder::CurrentSizeEstimate.
CurrentSizeEstimate(block) == BlockOverhead + SumSizes(block)

\* BlockBuilder::EstimateSizeAfterKV.
EstimateSizeAfterKV(block, key, value_size) ==
  CurrentSizeEstimate(block) + Len(key) + value_size

\* BlockHandle::EncodeTo writes two varints; the encoded handle of the
\* model is the pair itself, its length the varint lengths (1 byte each for
\* the offsets of the model).
HandleEncodingSize == 2

\* BlockHandle(): a handle that was never filled in (both fields ~0).
NullHandle == [offset |-> -1, size |-> -1]

\* ------------------------------------------------------------------ state
VARIABLES
  rep,           \* TableBuilder::Rep: the builder's fields
  level_,        \* TableBuilder::level_
  file,          \* the sink: the chunks appended so far, in order
  filter_block,  \* the calls made on the FilterBlockBuilder, in order
  assertion,     \* "held", or how a false assert ended: "aborted" | "ignored"
  failed_assert, \* the assert that was false, "none" while all held
  append_failed, \* whether a WritableFile::Append call has failed
  flush_called,  \* whether the last handler called Flush()
  cmp,           \* the last call made on the comparator
  codec_index,   \* the last index read from compression_per_level, -1: none
  last_add,      \* what the last Add call decided and did
  ret,           \* what the last Finish call returned
  codec_mode,    \* what the codecs of this run do (see CodecResult)
  past_the_end,  \* what is stored just past the end of compression_per_level
  last_op,       \* the handler that ran last
  closed_calls,  \* the number of calls made on the builder while closed
  option_changes, \* the number of ChangeOptions calls made
  batch,         \* the WriteBatch objects b1 and b2: header fields and payload
  batch_log,     \* per batch: the records added to it, and its shape
  mem,           \* the memtable of the last PrintContents call
  seen,          \* the handler calls of the last Iterate call, in order
  batch_ret      \* what the last WriteBatch call returned

vars == <<rep, level_, file, filter_block, assertion, failed_assert,
          append_failed, flush_called, cmp, codec_index, last_add, ret,
          codec_mode, past_the_end, last_op, closed_calls, option_changes,
          batch, batch_log, mem, seen, batch_ret>>

\* What no handler of the builder changes: the run's level, codecs and
\* memory, and the write batches.
run == <<level_, codec_mode, past_the_end,
         batch, batch_log, mem, seen, batch_ret>>

\* The builder, which no WriteBatch call touches.
builder == <<rep, level_, file, filter_block, assertion, failed_assert,
             append_failed, flush_called, cmp, codec_index, last_add, ret,
             codec_mode, past_the_end, last_op, closed_calls, option_changes>>

\* -------------------------------------------------------------- WriteBatch
\* The tags of the wire format.
kTypeDeletion == 0
kTypeValue == 1
kTypeLogData == 2
kTypeMerge == 3

\* The records one batch is given by Put, Delete, Merge and PutLogData.
MaxRecords == 2
\* The records b1 and b2 hold together when b2 is appended to b1.
MaxAppended == 3

BatchNames == {"b1", "b2"}
\* The batch that is given a sequence, cut and replayed; b2 is only built,
\* cleared and appended to b1.
Replayed == {"b1"}
\* The keys Put, Delete and Merge are called with: the key put is the
\* greater one, so a later Delete or Merge sorts before an earlier Put.
PutKeys == {<<2>>}
DeleteKeys == {<<1>>}
MergeKeys == {<<1>>}
UserValues == {<<3>>}
Blobs == {<<2>>}
Sequences == {4}

Corruption(kind) == [code |-> "Corruption", at |-> kind]

\* A batch is its header (sequence, count) and the payload after it.
NewBatch == [sequence |-> 0, count |-> 0, rep |-> <<>>]

PutLengthPrefixedSlice(dst, s) == dst \o <<Len(s)>> \o s

\* A lenient read of a slice, which a mutation puts in place of the strict
\* one: a slice cut short is taken as it is.
GetLengthPrefixedSliceLenient(input) ==
  IF input = <<>> THEN [ok |-> FALSE, slice |-> <<>>, rest |-> <<>>]
  ELSE [ok |-> TRUE,
        slice |-> SubSeq(input, 2, IF Head(input) + 1 <= Len(input)
                                   THEN Head(input) + 1 ELSE Len(input)),
        rest |-> SubSeq(input, Head(input) + 2, Len(input))]

\* The slice at the front of input: its length, then that many bytes.
GetLengthPrefixedSlice(input) ==
  IF input # <<>> /\ Head(input) <= Len(input) - 1
  THEN [ok |-> TRUE, slice |-> SubSeq(input, 2, Head(input) + 1),
        rest |-> SubSeq(input, Head(input) + 2, Len(input))]
  ELSE [ok |-> FALSE, slice |-> <<>>, rest |-> <<>>]

BatchPut(b, key, value) ==
  [b EXCEPT !.count = @ + 1,
            !.rep = PutLengthPrefixedSlice(
                      PutLengthPrefixedSlice(@ \o <<kTypeValue>>, key), value)]

BatchMerge(b, key, value) ==
  [b EXCEPT !.count = @ + 1,
            !.rep = PutLengthPrefixedSlice(
                      PutLengthPrefixedSlice(@ \o <<kTypeMerge>>, key), value)]

BatchDelete(b, key) ==
  [b EXCEPT !.count = @ + 1,
            !.rep = PutLengthPrefixedSlice(@ \o <<kTypeDeletion>>, key)]

BatchPutLogData(b, blob) ==
  [b EXCEPT !.rep = PutLengthPrefixedSlice(@ \o <<kTypeLogData>>, blob)]

BatchClear(b) == NewBatch

SetSequence(b, s) == [b EXCEPT !.sequence = s]

SetContents(b, contents) == [b EXCEPT !.rep = contents]

\* Append taking the source's sequence, which a mutation does.
BatchAppendSrcSequence(dst, src) ==
  [dst EXCEPT !.sequence = src.sequence, !.count = @ + src.count,
              !.rep = @ \o src.rep]

\* Append without the count, which a mutation gets wrong.
BatchAppendKeepCount(dst, src) == [dst EXCEPT !.rep = @ \o src.rep]

BatchAppend(dst, src) ==
  [dst EXCEPT !.count = @ + src.count, !.rep = @ \o src.rep]

\* A record as the handler is given it.
Record(kind, key, value) == [kind |-> kind, key |-> key, value |-> value]

\* A mutation of HandlerCall: the handler is called with the later records
\* first.
HandlerCallReversed(r, t) == [seen |-> t.seen \o <<r>>, status |-> t.status]

HandlerCall(r, t) == [seen |-> <<r>> \o t.seen, status |-> t.status]

\* The walk over the payload: the handler calls made, and the status.
RECURSIVE Iterate(_)
Iterate(input) ==
  IF input = <<>> THEN [seen |-> <<>>, status |-> OK]
  ELSE LET tag == Head(input)
           key == GetLengthPrefixedSlice(Tail(input))
           value == GetLengthPrefixedSlice(key.rest)
           Bad(kind) == [seen |-> <<>>, status |-> Corruption(kind)]
       IN CASE tag = kTypeValue ->
                 IF key.ok /\ value.ok
                 THEN HandlerCall(Record("Put", key.slice, value.slice),
                                  Iterate(value.rest))
                 ELSE Bad("Put")
            [] tag = kTypeMerge ->
                 IF key.ok /\ value.ok
                 THEN HandlerCall(Record("Merge", key.slice, value.slice),
                                  Iterate(value.rest))
                 ELSE Bad("Merge")
            [] tag = kTypeDeletion ->
                 IF key.ok
                 THEN HandlerCall(Record("Delete", key.slice, <<>>),
                                  Iterate(key.rest))
                 ELSE Bad("Delete")
            [] tag = kTypeLogData ->
                 IF key.ok
                 THEN HandlerCall(Record("LogData", <<>>, key.slice),
                                  Iterate(key.rest))
                 ELSE Bad("LogData")
            [] OTHER -> Bad("unknown tag")

TypeOf(kind) ==
  CASE kind = "Put" -> kTypeValue
    [] kind = "Merge" -> kTypeMerge
    [] kind = "Delete" -> kTypeDeletion

Counted(r) == r.kind # "LogData"

\* The memtable entry of a counted record.
Entry(r, sequence) ==
  [user_key |-> r.key, sequence |-> sequence, type |-> TypeOf(r.kind),
   value |-> r.value]

\* A mutation: every record, log data too, consumes a sequence number.
RECURSIVE MemTableInserterCountsAll(_, _)
MemTableInserterCountsAll(calls, sequence) ==
  IF calls = <<>> THEN {}
  ELSE (IF Counted(Head(calls)) THEN {Entry(Head(calls), sequence)} ELSE {})
       \cup MemTableInserterCountsAll(Tail(calls), sequence + 1)

\* The handler of InsertInto: the entries it adds to the memtable, the
\* first at `sequence`.
RECURSIVE MemTableInserter(_, _)
MemTableInserter(calls, sequence) ==
  IF calls = <<>> THEN {}
  ELSE IF Counted(Head(calls))
       THEN {Entry(Head(calls), sequence)}
            \cup MemTableInserter(Tail(calls), sequence + 1)
       ELSE MemTableInserter(Tail(calls), sequence)

InsertInto(b) ==
  [mem |-> MemTableInserter(Iterate(b.rep).seen, b.sequence),
   status |-> Iterate(b.rep).status]

\* What PrintContents appends after the entries.
PrintContentsStatus(b, r) ==
  IF r.status # OK THEN r.status
  ELSE IF Cardinality(r.mem) # b.count THEN [code |-> "CountMismatch",
                                             at |-> "none"]
  ELSE OK

\* The bytes of one record.
EncodeRecord(r) ==
  CASE r.kind = "Put" -> BatchPut(NewBatch, r.key, r.value).rep
    [] r.kind = "Merge" -> BatchMerge(NewBatch, r.key, r.value).rep
    [] r.kind = "Delete" -> BatchDelete(NewBatch, r.key).rep
    [] r.kind = "LogData" -> BatchPutLogData(NewBatch, r.value).rep

RECURSIVE Encode(_)
Encode(log) ==
  IF log = <<>> THEN <<>> ELSE EncodeRecord(Head(log)) \o Encode(Tail(log))

\* The lengths at which a payload ends on a record boundary.
Boundaries(log) == {Len(Encode(SubSeq(log, 1, n))) : n \in 0..Len(log)}

\* The lengths that cut the payload inside a record.
TruncationPoints(log) == (0..Len(Encode(log))) \ Boundaries(log)

NoBatchCall == [op |-> "none", batch |-> "none", status |-> OK]
NoLog == [log |-> <<>>, shape |-> "valid"]


\* The index WriteBlock reads compression_per_level at, n = its size.
CompressionIndex(level, n) ==
  LET min == IF level < n THEN level ELSE n
  IN IF 0 > min THEN 0 ELSE min

\* The CompressionType WriteBlock selects; `ub` is what the read yields when
\* the index is past the end of compression_per_level.
SelectCompression(options, level, ub) ==
  LET n == Len(options.compression_per_level)
      i == CompressionIndex(level, n)
  IN IF n # 0
     THEN (IF i < n THEN options.compression_per_level[i + 1] ELSE ub)
     ELSE options.compression

\* The options a builder is constructed with.  block_size_deviation is read
\* only when a block can be below block_size, and compression only when
\* compression_per_level is empty: the other combinations repeat these.
OptionsSet ==
  { o \in [ block_size : {4, 12},
            block_size_deviation : {0, 50},
            compression : {kNoCompression, kSnappyCompression},
            compression_per_level :
              {<<>>, <<kNoCompression, kZlibCompression>>},
            filter_policy : BOOLEAN,
            comparator : {"bytewise"},
            block_restart_interval : {16} ] :
      /\ o.block_size = 4 => o.block_size_deviation = 0
      /\ o.compression_per_level # <<>> => o.compression = kNoCompression }

\* The levels a builder is constructed for; -1: the level is not known.
Levels == {-1, 1, 2}

\* The values a run may hold just past the end of compression_per_level: an
\* enumerator that compresses, the one that does not, a value of no
\* enumerator.
PastTheEndValues == {kNoCompression, kBZip2Compression} \cup OutOfEnumTypes

\* What the codecs do in one run: "unavailable" (not built in: *_Compress
\* returns false), or they compress every block to just under ("good") or
\* exactly to ("poor") the size GoodCompressionRatio asks for.
CodecModes == {"unavailable", "good", "poor"}

\* port::*_Compress on raw_size bytes: whether it succeeded, and the size of
\* its output.
CodecResult(raw_size) ==
  CASE codec_mode = "unavailable" -> [ok |-> FALSE, size |-> 0]
    [] codec_mode = "good" ->
         [ok |-> TRUE, size |-> raw_size - (raw_size \div 8) - 1]
    [] codec_mode = "poor" ->
         [ok |-> TRUE, size |-> raw_size - (raw_size \div 8)]

\* The machine a handler runs on: the builder, the sink, the filter builder.
Machine ==
  [ rep |-> rep, file |-> file, filter_block |-> filter_block,
    assertion |-> assertion, failed_assert |-> failed_assert,
    append_failed |-> append_failed, flush_called |-> FALSE, cmp |-> cmp,
    codec_index |-> codec_index ]

ok(m) == m.rep.status = OK

Builds == {"debug", "ndebug"}
Aborted(m) == m.assertion = "aborted"

\* assert(cond), named `what`: it ends the program in a build with
\* assertions ("debug") and is skipped in one without ("ndebug").
AssertThat(m, cond, what, build) ==
  IF cond \/ Aborted(m) THEN m
  ELSE [m EXCEPT !.assertion = IF build = "debug" THEN "aborted" ELSE "ignored",
                 !.failed_assert = what]

\* One successful WritableFile::Append.
Chunk(kind, part, size, tag, content, at) ==
  [kind |-> kind, part |-> part, size |-> size, tag |-> tag,
   content |-> content, at |-> at]

\* How the two Appends of one block write may end.
WriteOutcomes == {"ok", "fail_contents", "fail_trailer"}

\* A slip: the trailer is not counted.
AdvanceOffsetNoTrailer(offset, size) == offset + size

\* The offset past a block of `size` bytes written at `offset`
\* (table_builder.cc:290).
AdvanceOffset(offset, size) == offset + size + kBlockTrailerSize

\* TableBuilder::WriteRawBlock, with the handle it fills in.  `content` is
\* what the block holds, `size` its stored byte count, `w` what the sink does.
WriteRawBlock(m, kind, content, size, type, w) ==
  LET offset == m.rep.offset
      next == AdvanceOffset(offset, size)
      contents == Chunk(kind, "contents", size, -1, content, offset)
      trailer == Chunk(kind, "trailer", kBlockTrailerSize, type, <<>>,
                       offset + size)
  IN [ handle |-> [offset |-> offset, size |-> size],
       m |-> CASE w = "fail_contents" ->
                    [m EXCEPT !.rep.status = IOError(kind),
                              !.append_failed = TRUE]
               [] w = "fail_trailer" ->
                    [m EXCEPT !.rep.status = IOError(kind),
                              !.append_failed = TRUE,
                              !.file = Append(@, contents)]
               [] OTHER ->
                    [m EXCEPT !.rep.status = OK,
                              !.file = @ \o <<contents, trailer>>,
                              !.rep.offset = next] ]

\* GoodCompressionRatio: compressed less than 12.5%.
GoodCompressionRatio(compressed_size, raw_size) ==
  compressed_size < raw_size - (raw_size \div 8)

\* The block_contents and type WriteBlock hands to WriteRawBlock for a block
\* of raw_size bytes (the switch of table_builder.cc:225-268).  No case
\* matches a value outside the enum: block_contents stays the empty Slice.
Compress(selected, raw_size) ==
  LET c == CodecResult(raw_size)
  IN IF selected = kNoCompression THEN [size |-> raw_size, type |-> selected]
     ELSE IF selected \in Compressing
     THEN (IF c.ok /\ GoodCompressionRatio(c.size, raw_size)
           THEN [size |-> c.size, type |-> selected]
           ELSE [size |-> raw_size, type |-> kNoCompression])
     ELSE [size |-> 0, type |-> selected]

\* A slip: WriteBlock without its block->Reset().
ResetBlockNever(m, kind) == m

\* block->Reset() on the block WriteBlock was given.
ResetBlock(m, kind) ==
  IF kind = "data" THEN [m EXCEPT !.rep.data_block = <<>>]
  ELSE IF kind = "index" THEN [m EXCEPT !.rep.index_block = <<>>]
  ELSE m

\* WriteBlock's last statements: compressed_output.clear(), block->Reset();
\* x is what WriteRawBlock left, n the size of compression_per_level.
WriteBlockEnd(x, kind, n) ==
  [ handle |-> x.handle,
    m |-> ResetBlock(
            [x.m EXCEPT
               !.codec_index =
                  IF n # 0 THEN CompressionIndex(level_, n) ELSE -1],
            kind) ]

\* WriteBlock past its assert(ok()).
WriteBlockChecked(m, kind, entries, w) ==
  IF Aborted(m) THEN [m |-> m, handle |-> NullHandle]
  ELSE
    LET raw_size == CurrentSizeEstimate(entries)
        c == Compress(SelectCompression(m.rep.options, level_, past_the_end),
                      raw_size)
    IN WriteBlockEnd(
         WriteRawBlock(m, kind, [entries |-> entries, raw_size |-> raw_size],
                       c.size, c.type, w),
         kind, Len(m.rep.options.compression_per_level))

\* TableBuilder::WriteBlock on the block `kind` holding `entries`, with the
\* handle it fills in.
WriteBlock(m_in, kind, entries, w, build) ==
  WriteBlockChecked(AssertThat(m_in, ok(m_in), "WriteBlock: ok()", build),
                    kind, entries, w)

\* FilterBlockBuilder calls, recorded only when the builder has one.
FilterCall(m, call) ==
  IF m.rep.filter_block
  THEN [m EXCEPT !.filter_block = Append(m.filter_block, call)]
  ELSE m

\* A slip: the new segment starts where the block just written began.
FilterStartBlockStale(m) ==
  FilterCall(m, [op |-> "StartBlock", arg |-> m.rep.data_size])

\* filter_block->StartBlock(r->offset) in Flush.
FilterStartBlock(m) ==
  FilterCall(m, [op |-> "StartBlock", arg |-> m.rep.offset])

\* A slip: data_size is left as it was.
FlushCountersKeepSize(m) ==
  [m EXCEPT !.rep.num_data_blocks = @ + 1]

\* The counters Flush updates after a block write.
FlushCounters(m) ==
  [m EXCEPT !.rep.data_size = m.rep.offset, !.rep.num_data_blocks = @ + 1]

\* What the sink may do during one Flush call: the block write and
\* WritableFile::Flush.
FlushOracles(m) ==
  IF ~ok(m) \/ m.rep.data_block = <<>>
  THEN {[w |-> "ok", flush_ok |-> TRUE]}
  ELSE {o \in [w : WriteOutcomes, flush_ok : BOOLEAN] :
          o.w # "ok" => o.flush_ok}

\* A slip: Flush without `r->pending_index_entry = true`.
FlushSinkNoPending(m, o) ==
  IF ok(m)
  THEN [m EXCEPT !.rep.status = IF o.flush_ok THEN OK ELSE IOError("flush")]
  ELSE m

\* Flush after WriteBlock: if (ok()) { pending_index_entry = true;
\* status = file->Flush(); }
FlushSink(m, o) ==
  IF ok(m)
  THEN [m EXCEPT !.rep.pending_index_entry = TRUE,
                 !.rep.status = IF o.flush_ok THEN OK ELSE IOError("flush")]
  ELSE m

\* Flush from WriteBlock's return on; x is what WriteBlock left.
FlushAfterWrite(x, o) ==
  IF Aborted(x.m) THEN x.m
  ELSE FlushCounters(FilterStartBlock(
         FlushSink([x.m EXCEPT !.rep.pending_handle = x.handle], o)))

\* Flush past assert(!pending_index_entry).
FlushWrite(m, o, build) ==
  IF Aborted(m) THEN m
  ELSE FlushAfterWrite(WriteBlock(m, "data", m.rep.data_block, o.w, build), o)

\* TableBuilder::Flush past its early returns: the block write and what
\* follows it.
FlushBlock(m_in, o, build) ==
  FlushWrite(AssertThat(m_in, ~m_in.rep.pending_index_entry,
                        "Flush: !pending_index_entry", build),
             o, build)

\* TableBuilder::Flush past assert(!closed).
FlushChecked(m_in, o, build) ==
  IF Aborted(m_in) THEN m_in
  ELSE IF ~ok(m_in) \/ m_in.rep.data_block = <<>>
  THEN [m_in EXCEPT !.flush_called = TRUE]
  ELSE FlushBlock([m_in EXCEPT !.flush_called = TRUE], o, build)

\* TableBuilder::Flush.
Flush(m_in, o, build) ==
  FlushChecked(AssertThat(m_in, ~m_in.rep.closed, "Flush: !closed", build),
               o, build)

\* A slip: a block of exactly block_size bytes is not flushed.
ShouldFlushStrict(curr_size, estimated_size_after, block_size, block_size_deviation) ==
  \/ curr_size > block_size
  \/ /\ estimated_size_after > block_size
     /\ block_size_deviation > 0
     /\ curr_size * 100 > block_size * (100 - block_size_deviation)

\* The flush test of Add (table_builder.cc:154-158).
ShouldFlush(curr_size, estimated_size_after, block_size, block_size_deviation) ==
  \/ curr_size >= block_size
  \/ /\ estimated_size_after > block_size
     /\ block_size_deviation > 0
     /\ curr_size * 100 > block_size * (100 - block_size_deviation)

\* Status::InvalidArgument("changing comparator while building table").
InvalidArgument == [code |-> "InvalidArgument", at |-> "comparator"]

\* A slip: ChangeOptions without the comparator test.
ChangeOptionsUnchecked(r, options) ==
  [ rep |-> [r EXCEPT !.options = options,
                      !.index_block_options =
                         [options EXCEPT !.block_restart_interval = 1]],
    status |-> OK ]

\* TableBuilder::ChangeOptions on the builder r: the builder it leaves and
\* the Status it returns.
ChangeOptions(r, options) ==
  IF options.comparator # r.options.comparator
  THEN [rep |-> r, status |-> InvalidArgument]
  ELSE [ rep |-> [r EXCEPT !.options = options,
                           !.index_block_options =
                              [options EXCEPT !.block_restart_interval = 1]],
         status |-> OK ]

\* The options a caller passes to ChangeOptions on a builder whose options
\* are `cur`: another block size, filter policy or comparator, the
\* compression settings kept.
ChangeOptionsInputs(cur) ==
  { [cur EXCEPT !.block_size = b, !.filter_policy = f, !.comparator = c] :
      b \in {4, 12}, f \in BOOLEAN, c \in {"bytewise", "other"} }

\* An index block entry: the key and the encoded handle.
IndexEntry(key, handle) ==
  [key |-> key, key_size |-> Len(key), value_size |-> HandleEncodingSize,
   handle |-> handle]

\* What the comparator, the sink and the codec may do during one Add call.
AddOracles(m, key, value_size) ==
  [fl : FlushOracles(m), sep : FindShortestSeparator(m.rep.last_key, key)]

\* A slip: the entry gets the first key of the next block, which is not
\* below that block's keys.
EmitPendingEntryNextKey(m, key, sep) ==
  [m EXCEPT
     !.rep.last_key = key,
     !.rep.index_block = Append(@, IndexEntry(key, m.rep.pending_handle)),
     !.rep.pending_index_entry = FALSE,
     !.cmp = [fn |-> "FindShortestSeparator", start |-> m.rep.last_key,
              limit |-> key, result |-> key]]

\* The pending index entry Add emits: FindShortestSeparator shortens
\* last_key in place to `sep`, which becomes the key of the entry.
EmitPendingEntry(m, key, sep) ==
  [m EXCEPT
     !.rep.last_key = sep,
     !.rep.index_block = Append(@, IndexEntry(sep, m.rep.pending_handle)),
     !.rep.pending_index_entry = FALSE,
     !.cmp = [fn |-> "FindShortestSeparator", start |-> m.rep.last_key,
              limit |-> key, result |-> sep]]

\* Add's last statements (table_builder.cc:171-179): the filter, the data
\* block, the counters.
AddAppend(m, key, value_size) ==
  [FilterCall(m, [op |-> "AddKey", arg |-> key]) EXCEPT
     !.rep.last_key = key,
     !.rep.data_block =
        Append(@, [key |-> key, key_size |-> Len(key),
                   value_size |-> value_size]),
     !.rep.num_entries = @ + 1,
     !.rep.raw_key_size = @ + Len(key),
     !.rep.raw_value_size = @ + value_size]

\* Add past assert(data_block.empty()).
AddPending(m, key, value_size, sep) ==
  IF Aborted(m) THEN m
  ELSE AddAppend(IF m.rep.pending_index_entry
                 THEN EmitPendingEntry(m, key, sep) ELSE m,
                 key, value_size)

\* Add past the flush test.
AddAfterFlush(m, key, value_size, sep, build) ==
  AddPending(IF m.rep.pending_index_entry
             THEN AssertThat(m, m.rep.data_block = <<>>,
                             "Add: data_block.empty()", build)
             ELSE m,
             key, value_size, sep)

\* TableBuilder::Add past its early return.
AddEntry(m, key, value_size, o, build) ==
  LET r == m.rep
      curr_size == CurrentSizeEstimate(r.data_block)
      estimated_size_after == EstimateSizeAfterKV(r.data_block, key, value_size)
  IN AddAfterFlush(
       IF ShouldFlush(curr_size, estimated_size_after, r.options.block_size,
                      r.options.block_size_deviation)
       THEN Flush(m, o.fl, build) ELSE m,
       key, value_size, o.sep, build)

\* A slip: Add without its `if (!ok()) return`.
AddUnlatched(m, key, value_size, o, build) ==
  AddEntry(m, key, value_size, o, build)

\* TableBuilder::Add past assert(!closed), the order check taken as met.
Add(m, key, value_size, o, build) ==
  IF ~ok(m) THEN m ELSE AddEntry(m, key, value_size, o, build)

AddChecked(m, key, value_size, o, build) ==
  IF Aborted(m) THEN m ELSE Add(m, key, value_size, o, build)

\* TableBuilder::Add.
AddCall(m, key, value_size, o, build) ==
  AddChecked(AssertThat(m, ~m.rep.closed, "Add: !closed", build),
             key, value_size, o, build)

\* A slip: Abandon drops the block being built.
AbandonDropsBlock(m) ==
  IF Aborted(m) THEN m
  ELSE [m EXCEPT !.rep.closed = TRUE, !.rep.data_block = <<>>]

\* TableBuilder::Abandon past assert(!closed).
AbandonChecked(m) ==
  IF Aborted(m) THEN m ELSE [m EXCEPT !.rep.closed = TRUE]

\* TableBuilder::Abandon.
Abandon(m, build) ==
  AbandonChecked(AssertThat(m, ~m.rep.closed, "Abandon: !closed", build))

\* --------------------------------------------------------------- Finish
\* FilterBlockBuilder::Finish: the size of the filter block it returns.
FilterFinishSize(calls) == Len(calls) + kBlockTrailerSize

\* The length of PutVarint64's output.
VarintLength(v) == IF v < 128 THEN 1 ELSE 2

StatsEntry(name, key_size, val) ==
  [name |-> name, key_size |-> key_size, value_size |-> VarintLength(val),
   value |-> val]

\* The stats block Finish builds (AddStats, then the map in bytewise order).
StatsEntries(r) ==
  << StatsEntry("rocksdb.data.size", 17, r.data_size),
     StatsEntry("rocksdb.index.size", 18,
                CurrentSizeEstimate(r.index_block) + kBlockTrailerSize),
     StatsEntry("rocksdb.num.data.blocks", 23, r.num_data_blocks),
     StatsEntry("rocksdb.num.entries", 19, r.num_entries),
     StatsEntry("rocksdb.raw.key.size", 20, r.raw_key_size),
     StatsEntry("rocksdb.raw.value.size", 22, r.raw_value_size) >>

MetaEntry(name, key_size, handle) ==
  [name |-> name, key_size |-> key_size, value_size |-> HandleEncodingSize,
   handle |-> handle]

\* assert(!r->closed) in Finish, after Flush().
AssertThatOpen(m, build) ==
  AssertThat(m, ~m.rep.closed, "Finish: !closed", build)

\* A slip: Finish leaves the builder open.
FinishStaysOpen(m) == m

\* r->closed = true.
FinishClose(m) == IF Aborted(m) THEN m ELSE [m EXCEPT !.rep.closed = TRUE]

\* Finish, step 1: Flush(), then closed = true.
FinishFlush(m, o, build) ==
  FinishClose(AssertThatOpen(Flush(m, o, build), build))

\* Finish's local handles, and whether it is inside the block that writes
\* the meta blocks (table_builder.cc:328-391).
NoHandles ==
  [filter |-> NullHandle, stats |-> NullHandle, metaindex |-> NullHandle,
   index |-> NullHandle, in_meta |-> FALSE]

\* What a block write of Finish leaves: x, from WriteBlock or WriteRawBlock,
\* with its handle stored in the local `which` of Finish.
StoreHandle(x, h, which) ==
  [m |-> x.m, h |-> [h EXCEPT ![which] = x.handle]]

\* Finish, step 2: the filter block.  h holds Finish's local handles.
FinishFilter(m, h, w) ==
  IF ~Aborted(m) /\ ok(m) /\ m.rep.filter_block
  THEN StoreHandle(WriteRawBlock(m, "filter",
                              [entries |-> m.filter_block,
                               raw_size |-> FilterFinishSize(m.filter_block)],
                              FilterFinishSize(m.filter_block),
                              kNoCompression, w),
                   h, "filter")
  ELSE [m |-> m, h |-> h]

\* Finish, step 3: the index entry of the last data block.
FinishPending(m, succ) ==
  IF ~Aborted(m) /\ ok(m) /\ m.rep.pending_index_entry
  THEN [m EXCEPT !.rep.last_key = succ,
                 !.rep.index_block =
                    Append(@, IndexEntry(succ, m.rep.pending_handle)),
                 !.rep.pending_index_entry = FALSE,
                 !.cmp = [fn |-> "FindShortSuccessor", start |-> m.rep.last_key,
                          limit |-> EmptyKey, result |-> succ]]
  ELSE m

\* Finish reads r->options.filter_policy->Name() when the builder has a
\* filter builder (table_builder.cc:339-343); the options in force may hold
\* no filter policy by then.
NullFilterPolicy(m) == m.rep.filter_block /\ ~m.rep.options.filter_policy

\* What the call through the null filter_policy may do: end the program, or
\* return some name.
NullCallOutcomes == {"crash", "garbage"}

\* Finish, entering the meta block section: the name of the filter's
\* metaindex entry.
FinishFilterName(m, ub) ==
  IF ~Aborted(m) /\ ok(m) /\ NullFilterPolicy(m) /\ ub = "crash"
  THEN [m EXCEPT !.assertion = "aborted",
                 !.failed_assert = "Finish: filter_policy != nullptr"]
  ELSE m

\* Finish, step 4: entering the meta block section, the stats block.
FinishStats(m, h, w, build) ==
  IF ~Aborted(m) /\ ok(m)
  THEN StoreHandle(WriteBlock(m, "stats", StatsEntries(m.rep), w, build),
                   [h EXCEPT !.in_meta = TRUE], "stats")
  ELSE [m |-> m, h |-> h]

\* The entries of the metaindex block, in bytewise order of their names.
MetaBlockHandles(m, h) ==
  (IF m.rep.filter_block
   THEN <<MetaEntry(IF m.rep.options.filter_policy THEN "filter.Name"
                    ELSE "filter.garbage", 11, h.filter)>>
   ELSE <<>>)
  \o <<MetaEntry("rocksdb.stats", 13, h.stats)>>

\* Finish, step 5: the metaindex block, in the same section as the stats
\* block: the status is not tested between the two.
FinishMetaindex(m, h, w, build) ==
  IF ~Aborted(m) /\ h.in_meta
  THEN StoreHandle(WriteBlock(m, "metaindex", MetaBlockHandles(m, h), w, build),
                   h, "metaindex")
  ELSE [m |-> m, h |-> h]

\* Finish, step 6: the index block.
FinishIndex(m, h, w, build) ==
  IF ~Aborted(m) /\ ok(m)
  THEN StoreHandle(WriteBlock(m, "index", m.rep.index_block, w, build),
                   h, "index")
  ELSE [m |-> m, h |-> h]

\* Finish, step 7: the footer.
FinishFooter(m, h, footer_ok) ==
  IF ~Aborted(m) /\ ok(m)
  THEN IF footer_ok
       THEN [m EXCEPT
               !.file = Append(@, Chunk("footer", "contents",
                                        kFooterEncodedLength, -1,
                                        [entries |->
                                           <<[metaindex_handle |-> h.metaindex,
                                              index_handle |-> h.index]>>,
                                         raw_size |-> kFooterEncodedLength],
                                        m.rep.offset)),
               !.rep.offset = @ + kFooterEncodedLength]
       ELSE [m EXCEPT !.rep.status = IOError("footer"),
                      !.append_failed = TRUE]
  ELSE m

\* The outcomes a step of Finish can see: S when it runs, one when it is
\* skipped.
Relevant(runs, S, none) == IF runs THEN S ELSE {none}

\* ------------------------------------------------------------------- Init
\* TableBuilder::Rep::Rep and TableBuilder::TableBuilder.
NewRep(opt) ==
  [ options |-> opt,
    index_block_options |-> [opt EXCEPT !.block_restart_interval = 1],
    offset |-> 0,
    status |-> OK,
    data_block |-> <<>>,
    index_block |-> <<>>,
    last_key |-> EmptyKey,
    num_entries |-> 0,
    num_data_blocks |-> 0,
    raw_key_size |-> 0,
    raw_value_size |-> 0,
    data_size |-> 0,
    closed |-> FALSE,
    filter_block |-> opt.filter_policy,
    pending_index_entry |-> FALSE,
    pending_handle |-> [offset |-> 0, size |-> 0] ]

\* What an Add call that returned at once leaves in last_add.
NoAdd ==
  [active |-> FALSE, curr_size |-> 0, estimated_size_after |-> 0,
   block_size |-> 0, block_size_deviation |-> 0, flushed |-> FALSE,
   appended |-> 0]

NoCall == [fn |-> "none", start |-> EmptyKey, limit |-> EmptyKey,
           result |-> EmptyKey]

\* A builder as constructed, in a run whose codecs and memory are any the
\* builder can tell apart: level_ is read only with a per-level list, the
\* value past its end only when the index is past its end, the codecs only
\* when a compressing type is selected.
Init ==
  /\ \E opt \in OptionsSet :
       /\ rep = NewRep(opt)
       /\ filter_block = IF opt.filter_policy
                         THEN <<[op |-> "StartBlock", arg |-> 0]>> ELSE <<>>
       /\ level_ \in Levels
       /\ past_the_end \in PastTheEndValues
       /\ codec_mode \in CodecModes
       /\ LET n == Len(opt.compression_per_level)
          IN /\ n = 0 => level_ = -1
             /\ CompressionIndex(level_, n) < n \/ n = 0
                  => past_the_end = kNoCompression
             /\ SelectCompression(opt, level_, past_the_end) \notin Compressing
                  => codec_mode = "unavailable"
  /\ file = <<>>
  /\ assertion = "held"
  /\ failed_assert = "none"
  /\ append_failed = FALSE
  /\ flush_called = FALSE
  /\ cmp = NoCall
  /\ codec_index = -1
  /\ last_add = NoAdd
  /\ ret = [op |-> "none", status |-> OK]
  /\ last_op = "none"
  /\ closed_calls = 0
  /\ option_changes = 0
  /\ batch = [n \in BatchNames |-> NewBatch]
  /\ batch_log = [n \in BatchNames |-> NoLog]
  /\ mem = {}
  /\ seen = <<>>
  /\ batch_ret = NoBatchCall

\* A builder as constructed with options that compress nothing.
InitPlain ==
  /\ Init
  /\ rep.options.compression_per_level = <<>>
  /\ rep.options.compression = kNoCompression

\* A handler may run: the program has not been ended by a failed assert.
Running == assertion # "aborted"

Install(m) ==
  /\ rep' = m.rep
  /\ file' = m.file
  /\ filter_block' = m.filter_block
  /\ assertion' = m.assertion
  /\ failed_assert' = m.failed_assert
  /\ append_failed' = m.append_failed
  /\ flush_called' = m.flush_called
  /\ cmp' = m.cmp
  /\ codec_index' = m.codec_index

\* ---------------------------------------------------------------- actions
\* One call Add(key, value), keys strictly increasing.
AddStep ==
  /\ rep.num_entries < MaxEntries
  /\ \E key \in Keys, value_size \in ValueSizes, build \in Builds :
       /\ rep.num_entries > 0 => Compare(key, rep.last_key) > 0
       /\ \E o \in AddOracles(Machine, key, value_size) :
            \E m \in {AddCall(Machine, key, value_size, o, build)} :
               /\ Install(m)
               /\ last_add' =
                    IF rep.status # OK \/ Aborted(m) THEN NoAdd ELSE
                    [active |-> TRUE,
                     curr_size |-> CurrentSizeEstimate(rep.data_block),
                     estimated_size_after |->
                        EstimateSizeAfterKV(rep.data_block, key, value_size),
                     block_size |-> rep.options.block_size,
                     block_size_deviation |->
                        rep.options.block_size_deviation,
                     flushed |-> m.flush_called,
                     appended |-> Len(m.file) - Len(file)]
  /\ last_op' = "Add"
  /\ UNCHANGED <<run, ret>>

\* One call Flush().
FlushStep ==
  /\ \E build \in Builds : \E o \in FlushOracles(Machine) :
       Install(Flush(Machine, o, build))
  /\ last_op' = "Flush"
  /\ UNCHANGED <<run, last_add, ret>>

\* One call Abandon().
AbandonStep ==
  /\ \E build \in Builds : Install(Abandon(Machine, build))
  /\ last_op' = "Abandon"
  /\ UNCHANGED <<run, last_add, ret>>

\* One call Finish().
FinishStep ==
  /\ \E build \in Builds : \E o1 \in FlushOracles(Machine) :
     \E m1 \in {FinishFlush(Machine, o1, build)} :
        \E w2 \in Relevant(~Aborted(m1) /\ ok(m1) /\ m1.rep.filter_block,
                          WriteOutcomes, "ok") :
     \E s2 \in {FinishFilter(m1, NoHandles, w2)} :
        \E succ \in Relevant(~Aborted(s2.m) /\ ok(s2.m)
                               /\ s2.m.rep.pending_index_entry,
                            FindShortSuccessor(s2.m.rep.last_key),
                            s2.m.rep.last_key) :
     \E m3p \in {FinishPending(s2.m, succ)} :
        \E ub \in Relevant(~Aborted(m3p) /\ ok(m3p) /\ NullFilterPolicy(m3p),
                          NullCallOutcomes, "garbage") :
     \E m3 \in {FinishFilterName(m3p, ub)} :
        \E w4 \in Relevant(~Aborted(m3) /\ ok(m3), WriteOutcomes, "ok") :
     \E s4 \in {FinishStats(m3, s2.h, w4, build)} :
        \E w5 \in Relevant(~Aborted(s4.m) /\ s4.h.in_meta
                             /\ (ok(s4.m) \/ build = "ndebug"),
                          WriteOutcomes, "ok") :
     \E s5 \in {FinishMetaindex(s4.m, s4.h, w5, build)} :
        \E w6 \in Relevant(~Aborted(s5.m) /\ ok(s5.m), WriteOutcomes, "ok") :
     \E s6 \in {FinishIndex(s5.m, s5.h, w6, build)} :
        \E footer_ok \in Relevant(~Aborted(s6.m) /\ ok(s6.m), BOOLEAN, TRUE) :
     \E m7 \in {FinishFooter(s6.m, s6.h, footer_ok)} :
        /\ Install(m7)
        /\ ret' = IF Aborted(m7) THEN ret
                  ELSE [op |-> "Finish", status |-> m7.rep.status]
  /\ last_op' = "Finish"
  /\ UNCHANGED <<run, last_add>>

\* A call Add(key, value) on an open builder.
DoAdd ==
  /\ Running /\ ~rep.closed
  /\ AddStep
  /\ UNCHANGED <<closed_calls, option_changes>>

\* A call Flush() on an open builder.
DoFlush ==
  /\ Running /\ ~rep.closed
  /\ FlushStep
  /\ UNCHANGED <<closed_calls, option_changes>>

\* A call Abandon() on an open builder.
DoAbandon ==
  /\ Running /\ ~rep.closed
  /\ AbandonStep
  /\ UNCHANGED <<closed_calls, option_changes>>

\* A call Finish() on an open builder.
DoFinish ==
  /\ Running /\ ~rep.closed
  /\ FinishStep
  /\ UNCHANGED <<closed_calls, option_changes>>

Next == DoAdd \/ DoFlush \/ DoFinish \/ DoAbandon

\* The builder with callers that keep to its contract: no call once closed.
Spec == Init /\ [][Next]_vars

\* A call on a builder that is closed, which the contract forbids.
ClosedCall == Running /\ rep.closed /\ closed_calls < MaxClosedCalls

DoAddClosed ==
  /\ ClosedCall
  /\ AddStep
  /\ closed_calls' = closed_calls + 1
  /\ UNCHANGED option_changes

DoFlushClosed ==
  /\ ClosedCall
  /\ FlushStep
  /\ closed_calls' = closed_calls + 1
  /\ UNCHANGED option_changes

DoAbandonClosed ==
  /\ ClosedCall
  /\ AbandonStep
  /\ closed_calls' = closed_calls + 1
  /\ UNCHANGED option_changes

DoFinishClosed ==
  /\ ClosedCall
  /\ FinishStep
  /\ closed_calls' = closed_calls + 1
  /\ UNCHANGED option_changes

\* A call ChangeOptions(options) on an open builder.
DoChangeOptions ==
  /\ Running /\ ~rep.closed
  /\ option_changes < MaxOptionChanges
  /\ \E options \in ChangeOptionsInputs(rep.options) :
       \E x \in {ChangeOptions(rep, options)} :
          /\ rep' = x.rep
          /\ ret' = [op |-> "ChangeOptions", status |-> x.status,
                     options |-> options]
  /\ option_changes' = option_changes + 1
  /\ last_op' = "ChangeOptions"
  /\ UNCHANGED <<run, file, filter_block, assertion, failed_assert,
                 append_failed, flush_called, cmp, codec_index, last_add,
                 closed_calls>>

NextChangeOptions ==
  DoAdd \/ DoFlush \/ DoFinish \/ DoAbandon \/ DoChangeOptions

\* The builder with callers that also change its options while it is open.
SpecChangeOptions == InitPlain /\ [][NextChangeOptions]_vars

NextAnyCaller ==
  \/ DoAdd \/ DoFlush \/ DoFinish \/ DoAbandon
  \/ DoAddClosed \/ DoFlushClosed \/ DoFinishClosed \/ DoAbandonClosed

\* The builder with any caller: calls are also made once it is closed.
SpecAnyCaller == InitPlain /\ [][NextAnyCaller]_vars

\* --------------------------------------------------------- WriteBatch calls
\* A call that changes batch n; the memtable and the handler of an earlier
\* PrintContents or Iterate call are gone.
BatchStep(n, b, log, shape, op) ==
  /\ batch' = [batch EXCEPT ![n] = b]
  /\ batch_log' = [batch_log EXCEPT ![n] = [log |-> log, shape |-> shape]]
  /\ mem' = {}
  /\ seen' = <<>>
  /\ batch_ret' = [op |-> op, batch |-> n, status |-> OK]
  /\ UNCHANGED builder

\* The shape of a batch after a record is added at its end.
AddedShape(shape) == IF shape = "valid" THEN "valid" ELSE "other"

\* The shape of dst after src is appended to it.
AppendedShape(dst, src) ==
  IF dst.shape = "valid" THEN src.shape
  ELSE IF src.shape = "valid" /\ src.log = <<>> THEN dst.shape
  ELSE "other"

\* Records are added to batches that are well-formed and not full.
CanAdd(n) ==
  /\ batch_log[n].shape = "valid"
  /\ Len(batch_log[n].log) < MaxRecords

DoBatchPut ==
  \E n \in BatchNames, key \in PutKeys, value \in UserValues :
    /\ CanAdd(n)
    /\ BatchStep(n, BatchPut(batch[n], key, value),
                 Append(batch_log[n].log, Record("Put", key, value)),
                 AddedShape(batch_log[n].shape), "Put")

DoBatchMerge ==
  \E n \in BatchNames, key \in MergeKeys, value \in UserValues :
    /\ CanAdd(n)
    /\ BatchStep(n, BatchMerge(batch[n], key, value),
                 Append(batch_log[n].log, Record("Merge", key, value)),
                 AddedShape(batch_log[n].shape), "Merge")

DoBatchDelete ==
  \E n \in BatchNames, key \in DeleteKeys :
    /\ CanAdd(n)
    /\ BatchStep(n, BatchDelete(batch[n], key),
                 Append(batch_log[n].log, Record("Delete", key, <<>>)),
                 AddedShape(batch_log[n].shape), "Delete")

DoBatchPutLogData ==
  \E n \in BatchNames, blob \in Blobs :
    /\ CanAdd(n)
    /\ BatchStep(n, BatchPutLogData(batch[n], blob),
                 Append(batch_log[n].log, Record("LogData", <<>>, blob)),
                 AddedShape(batch_log[n].shape), "PutLogData")

DoBatchClear ==
  \E n \in BatchNames :
    BatchStep(n, BatchClear(batch[n]), <<>>, "valid", "Clear")

DoSetSequence ==
  \E n \in Replayed, s \in Sequences :
    BatchStep(n, SetSequence(batch[n], s), batch_log[n].log,
              batch_log[n].shape, "SetSequence")

\* The payload of a valid batch is cut inside one of its records.
DoSetContents ==
  \E n \in Replayed :
    /\ batch_log[n].shape = "valid"
    /\ \E size \in TruncationPoints(batch_log[n].log) :
         BatchStep(n, SetContents(batch[n], SubSeq(batch[n].rep, 1, size)),
                   batch_log[n].log, "truncated", "SetContents")

DoBatchAppend ==
  /\ batch_log["b1"].shape # "other"
  /\ Len(batch_log["b1"].log) + Len(batch_log["b2"].log) <= MaxAppended
  /\ BatchStep("b1", BatchAppend(batch["b1"], batch["b2"]),
               batch_log["b1"].log \o batch_log["b2"].log,
               AppendedShape(batch_log["b1"], batch_log["b2"]), "Append")

DoPrintContents ==
  \E n \in Replayed :
    /\ mem' = InsertInto(batch[n]).mem
    /\ seen' = <<>>
    /\ batch_ret' = [op |-> "PrintContents", batch |-> n,
                     status |-> InsertInto(batch[n]).status,
                     tail |-> PrintContentsStatus(batch[n],
                                                  InsertInto(batch[n]))]
    /\ UNCHANGED <<batch, batch_log, builder>>

DoIterate ==
  \E n \in Replayed :
    /\ seen' = Iterate(batch[n].rep).seen
    /\ mem' = {}
    /\ batch_ret' = [op |-> "Iterate", batch |-> n,
                     status |-> Iterate(batch[n].rep).status]
    /\ UNCHANGED <<batch, batch_log, builder>>

NextBatch ==
  \/ DoBatchPut \/ DoBatchMerge \/ DoBatchDelete \/ DoBatchPutLogData
  \/ DoBatchClear \/ DoSetSequence \/ DoSetContents \/ DoBatchAppend
  \/ DoPrintContents \/ DoIterate

\* The batches next to one builder, which stays as constructed.
InitBatch ==
  /\ InitPlain
  /\ rep.options.block_size = 12
  /\ rep.options.block_size_deviation = 0
  /\ ~rep.options.filter_policy

SpecBatch == InitBatch /\ [][NextBatch]_vars

\* ------------------------------------------------------ reading the sink
\* The positions in the sink of the blocks of `kind` whose contents and
\* trailer were both appended.
Written(kind) ==
  {i \in 1..(Len(file) - 1) :
     /\ file[i].kind = kind /\ file[i].part = "contents"
     /\ file[i + 1].kind = kind /\ file[i + 1].part = "trailer"}

\* The positions of the contents of `kind`, with a trailer or without.
Contents(kind) ==
  {i \in 1..Len(file) : file[i].kind = kind /\ file[i].part = "contents"}

RECURSIVE SumChunks(_)
SumChunks(chunks) ==
  IF chunks = <<>> THEN 0 ELSE Head(chunks).size + SumChunks(Tail(chunks))

\* The number of bytes appended to the sink so far.
SinkBytes == SumChunks(file)

\* TableBuilder::FileSize.
FileSize == rep.offset

\* The index entries built so far: those of the index block while it is
\* being built, those appended to the sink once WriteBlock has reset it.
IndexEntries ==
  IF Contents("index") # {}
  THEN file[CHOOSE i \in Contents("index") : TRUE].content.entries
  ELSE rep.index_block

\* The keys of the entries of a block.
KeysOf(entries) == {entries[j].key : j \in 1..Len(entries)}

\* ------------------------------------------------------------------ C1
\* C1: every index entry K_i names a data block B_i written to the sink,
\* K_i >= the last key of B_i, and K_i < every key added after B_i (the keys
\* of every later block and of the block being built); when Finish has
\* returned and every write up to the filter block succeeded, there is one
\* index entry per written data block and the last index key is the result
\* of FindShortSuccessor applied to the last key added.
IndexKeysSeparate ==
  /\ \A e \in 1..Len(IndexEntries) :
       LET K == IndexEntries[e].key
           h == IndexEntries[e].handle
       IN \E i \in Written("data") :
            /\ file[i].at = h.offset /\ file[i].size = h.size
            /\ Compare(K, file[i].content.entries[
                            Len(file[i].content.entries)].key) >= 0
            /\ \A j \in Contents("data") :
                 j > i => \A k \in KeysOf(file[j].content.entries) :
                            Compare(K, k) < 0
            /\ \A k \in KeysOf(rep.data_block) : Compare(K, k) < 0
  /\ ( /\ ret.op = "Finish"
       /\ ret.status.at \notin {"data", "flush", "filter"}
       /\ IndexEntries # <<>> )
     => LET last == CHOOSE i \in Written("data") :
                      \A j \in Written("data") : j <= i
            L == file[last].content.entries[
                   Len(file[last].content.entries)].key
        IN /\ Len(IndexEntries) = Cardinality(Written("data"))
           /\ cmp.fn = "FindShortSuccessor"
           /\ cmp.start = L
           /\ IndexEntries[Len(IndexEntries)].key = cmp.result
           /\ Compare(cmp.result, L) >= 0

\* Finish has returned ok after two data blocks; the first index key is a
\* separator shorter than the first key of the second block and other than
\* the last key of the first.
IndexKeysSeparateWitness ==
  /\ ret.op = "Finish" /\ ret.status = OK
  /\ Len(IndexEntries) = 2
  /\ Cardinality(Written("data")) = 2
  /\ \E i \in Written("data") :
       /\ file[i].at = 0
       /\ IndexEntries[1].key #
            file[i].content.entries[Len(file[i].content.entries)].key
  /\ IndexEntries[2].key # rep.last_key \/ cmp.start # cmp.result

\* ------------------------------------------------------------------ C2
\* The kinds of the blocks Finish writes after the data blocks.
FinishKinds == {"filter", "stats", "metaindex", "index", "footer"}

\* C2: inside Finish every write is attempted only while the status is ok:
\* WriteBlock's assert(ok()) never fails, no chunk follows the contents of
\* a Finish block whose trailer was not appended, and once a write of
\* Finish has failed Finish returns a non-ok status.
FinishWritesGated ==
  /\ failed_assert # "WriteBlock: ok()"
  /\ \A i \in 1..(Len(file) - 1) :
       (file[i].kind \in FinishKinds /\ file[i].part = "contents")
         => (file[i + 1].kind = file[i].kind /\ file[i + 1].part = "trailer")
  /\ (ret.op = "Finish" /\ append_failed) => ret.status # OK

\* ------------------------------------------------------------------ C3
\* C3: once the status is not ok on an open builder it stays what it is,
\* nothing more is appended to the sink, no field of the builder changes
\* except closed (set by Finish and Abandon), no call is made on the filter
\* builder or the comparator, and a Finish returns that status.
FailureLatched ==
  [][ (rep.status # OK /\ ~rep.closed)
        => /\ rep'.status = rep.status
           /\ file' = file
           /\ filter_block' = filter_block
           /\ cmp' = cmp
           /\ rep' \in {rep, [rep EXCEPT !.closed = TRUE]}
           /\ (ret' # ret => ret' = [op |-> "Finish", status |-> rep.status]) ]_vars

\* After a sink call failed in Add or Flush, an Add call returned at once
\* and Finish then returned the failure, having appended nothing: the sink
\* holds no block of Finish.
FailureLatchedWitness ==
  /\ ret.op = "Finish"
  /\ ret.status # OK
  /\ ret.status.at \in {"data", "flush"}
  /\ last_add = NoAdd
  /\ rep.num_entries > 0
  /\ rep.closed
  /\ \A i \in 1..Len(file) : file[i].kind = "data"

KindParts == [i \in 1..Len(file) |-> <<file[i].kind, file[i].part>>]

\* A block's two chunks.
BlockParts(kind) == << <<kind, "contents">>, <<kind, "trailer">> >>

\* What a Finish that succeeds appends after the data blocks.
FinishParts ==
  (IF rep.filter_block THEN BlockParts("filter") ELSE <<>>)
  \o BlockParts("stats") \o BlockParts("metaindex") \o BlockParts("index")
  \o << <<"footer", "contents">> >>

\* The handle of the block whose contents are chunk i of the sink.
HandleOf(i) == [offset |-> file[i].at, size |-> file[i].size]

\* C5: when Finish has returned ok the sink holds the data blocks, then the
\* filter block (iff the builder has a filter builder, with tag 0), the
\* stats block, the metaindex block, the index block and, last, the footer;
\* the footer holds the handles of that metaindex block and that index
\* block; and no write before the footer has failed.
FinishLayout ==
  (ret.op = "Finish" /\ ret.status = OK) =>
    LET n == Len(file)
        t == Len(FinishParts)
    IN /\ n >= t
       /\ SubSeq(KindParts, n - t + 1, n) = FinishParts
       /\ \A i \in 1..(n - t) : file[i].kind = "data"
       /\ \A i \in Contents("data") : i \in Written("data")
       /\ \A i \in Written("filter") : file[i + 1].tag = kNoCompression
       /\ file[n].content.entries[1].metaindex_handle = HandleOf(n - 4)
       /\ file[n].content.entries[1].index_handle = HandleOf(n - 2)
       /\ file[n].at + file[n].size = SinkBytes
       /\ ~append_failed

\* ------------------------------------------------------------------ C6
\* The kinds of the blocks written through WriteBlock.
WriteBlockKinds == {"data", "stats", "metaindex", "index"}

\* C6: with a per-level list of n entries the index WriteBlock reads it at
\* is within 0..n-1, for every level; with an empty list no index is read
\* and every block is stored with the global compression option or raw.
CodecIndexInRange ==
  LET n == Len(rep.options.compression_per_level)
  IN IF n # 0
     THEN codec_index # -1 => codec_index \in 0..(n - 1)
     ELSE /\ codec_index = -1
          /\ \A k \in WriteBlockKinds : \A i \in Written(k) :
               file[i + 1].tag \in {rep.options.compression, kNoCompression}

\* ------------------------------------------------------------------ C7
\* C7: every block written by WriteBlock has a non-zero tag only if the
\* codec succeeded and its output is smaller than raw - raw/8, and then that
\* output is what is stored; in every other case the raw bytes are stored
\* with tag 0; the handle recorded for the block (the pending handle, the
\* footer's handles) holds the stored byte count, without the trailer.
CompressedOnlyIfGoodRatio ==
  /\ \A k \in WriteBlockKinds : \A i \in Written(k) :
       LET raw == file[i].content.raw_size
           stored == file[i].size
           tag == file[i + 1].tag
           c == CodecResult(raw)
       IN IF tag # kNoCompression
          THEN /\ c.ok
               /\ stored = c.size
               /\ stored < raw - (raw \div 8)
          ELSE stored = raw
  /\ rep.pending_index_entry =>
       \E i \in Written("data") : rep.pending_handle = HandleOf(i)
  /\ \A f \in Contents("footer") :
       /\ \E i \in Written("metaindex") :
            file[f].content.entries[1].metaindex_handle = HandleOf(i)
       /\ \E i \in Written("index") :
            file[f].content.entries[1].index_handle = HandleOf(i)

\* ------------------------------------------------------------------ C8
\* C8: the last Add call on an open builder with ok status called Flush
\* before appending its entry iff cur >= B or (after > B and d > 0 and
\* cur*100 > B*(100-d)); when it did not, it appended nothing to the sink.
FlushIffSizeTest ==
  last_add.active =>
    LET cur == last_add.curr_size
        after == last_add.estimated_size_after
        B == last_add.block_size
        d == last_add.block_size_deviation
        test == \/ cur >= B
                \/ (after > B /\ d > 0 /\ cur * 100 > B * (100 - d))
    IN /\ last_add.flushed <=> test
       /\ ~test => last_add.appended = 0

\* An Add flushed a block smaller than block_size because the entry would
\* not fit and the block was past the deviation limit; the block was written.
FlushIffSizeTestWitness ==
  /\ last_add.active
  /\ last_add.flushed
  /\ last_add.curr_size < last_add.block_size
  /\ last_add.appended = 2
  /\ Len(rep.data_block) = 1

\* ------------------------------------------------------------------ C9
\* The argument of the last StartBlock call before call p of the filter
\* builder.
SegmentStart(p) ==
  LET q == CHOOSE q \in 1..p :
             /\ filter_block[q].op = "StartBlock"
             /\ \A x \in (q + 1)..p : filter_block[x].op # "StartBlock"
  IN filter_block[q].arg

\* The calls AddKey(k) made on the filter builder.
AddKeyCalls(k) ==
  {p \in 1..Len(filter_block) : filter_block[p] = [op |-> "AddKey", arg |-> k]}

\* C9: with a filter builder, the first call on it is StartBlock(0); one
\* StartBlock call follows each data block write; and every key of a data
\* block was passed to AddKey in the segment started with the offset of
\* that block (for the block being built: the offset it will be written at).
FilterSegmentsMatchBlocks ==
  rep.filter_block =>
    /\ Len(filter_block) >= 1
    /\ filter_block[1] = [op |-> "StartBlock", arg |-> 0]
    /\ Cardinality({p \in 1..Len(filter_block) :
                      filter_block[p].op = "StartBlock"})
         = 1 + rep.num_data_blocks
    /\ \A i \in Contents("data") :
         \A k \in KeysOf(file[i].content.entries) :
           /\ AddKeyCalls(k) # {}
           /\ \A p \in AddKeyCalls(k) : SegmentStart(p) = file[i].at
    /\ \A k \in KeysOf(rep.data_block) :
         /\ AddKeyCalls(k) # {}
         /\ \A p \in AddKeyCalls(k) : SegmentStart(p) = rep.offset

\* Three keys went to two data blocks and two filter segments, the second
\* starting past the first block.
FilterSegmentsWitness ==
  /\ rep.filter_block
  /\ Cardinality(Written("data")) = 2
  /\ rep.num_entries = 3
  /\ \E p \in 1..Len(filter_block) :
       filter_block[p].op = "StartBlock" /\ filter_block[p].arg > 0
         /\ p < Len(filter_block)
         /\ filter_block[p + 1].op = "AddKey"

\* ----------------------------------------------------------------- C10
\* The value the stats block at chunk i records under `name`.
StatValue(i, name) ==
  LET es == file[i].content.entries
  IN es[CHOOSE j \in 1..Len(es) : es[j].name = name].value

RECURSIVE SumOver(_, _)
\* The sum of the stored size + trailer of the blocks at positions S.
SumOver(S, chunks) ==
  IF S = {} THEN 0
  ELSE LET i == CHOOSE i \in S : TRUE
       IN chunks[i].size + kBlockTrailerSize + SumOver(S \ {i}, chunks)

RECURSIVE CountEntries(_, _)
\* The number of entries of the blocks at positions S.
CountEntries(S, chunks) ==
  IF S = {} THEN 0
  ELSE LET i == CHOOSE i \in S : TRUE
       IN Len(chunks[i].content.entries) + CountEntries(S \ {i}, chunks)

\* C10: the stats block Finish writes records as num_entries the number of
\* entries appended by Add, as num_data_blocks the number of data blocks in
\* the sink, and as data_size the sum of their stored sizes + 5, which is
\* the offset past the last data block.
StatsMatchBuilt ==
  \A s \in Contents("stats") :
    LET D == Written("data")
    IN /\ StatValue(s, "rocksdb.num.entries") = CountEntries(D, file)
       /\ StatValue(s, "rocksdb.num.entries") = rep.num_entries
       /\ StatValue(s, "rocksdb.num.data.blocks") = Cardinality(D)
       /\ StatValue(s, "rocksdb.data.size") = SumOver(D, file)
       /\ \A i \in D : i < s
       /\ \A i \in D :
            file[i + 1].at + kBlockTrailerSize
              <= StatValue(s, "rocksdb.data.size")
       /\ D # {} => \E i \in D :
            file[i + 1].at + kBlockTrailerSize
              = StatValue(s, "rocksdb.data.size")

\* A stats block was written after three entries in two data blocks.
StatsMatchBuiltWitness ==
  \E s \in Contents("stats") :
    /\ StatValue(s, "rocksdb.num.entries") = 3
    /\ StatValue(s, "rocksdb.num.data.blocks") = 2
    /\ StatValue(s, "rocksdb.data.size") > 0
    /\ Written("filter") # {}

\* ----------------------------------------------------------------- C11
\* The asserts a call on a closed builder violates first.
ClosedAsserts ==
  {"Add: !closed", "Flush: !closed", "Finish: !closed", "Abandon: !closed"}

\* What C11 and its amendment share: closed is false at construction, once
\* true it stays true, it becomes true only in Finish or Abandon, and a
\* Finish or Abandon that returns leaves it true.
ClosedLifecycle ==
  /\ rep.closed => rep'.closed
  /\ (~rep.closed /\ rep'.closed) => last_op' \in {"Finish", "Abandon"}
  /\ (last_op' \in {"Finish", "Abandon"} /\ assertion' # "aborted")
       => rep'.closed

\* C11 as stated: the lifecycle above, and every call on a closed builder
\* is an assertion failure that appends nothing to the sink.
ClosedBuilderAppendsNothing ==
  /\ ~rep.closed
  /\ [][ /\ ClosedLifecycle
         /\ rep.closed => /\ failed_assert' \in ClosedAsserts
                          /\ file' = file ]_vars

\* C11 as amended: the lifecycle above, and every call on a closed builder
\* violates assert(!closed); where the assert is compiled in, the program
\* ends there with the builder and the sink as they were; where it is not
\* (NDEBUG), the call runs on.
ClosedBuilderFailsAssert ==
  /\ ~rep.closed
  /\ [][ /\ ClosedLifecycle
         /\ rep.closed =>
              /\ assertion' # "held"
              /\ failed_assert' \in ClosedAsserts \cup {"WriteBlock: ok()"}
              /\ assertion' = "aborted" =>
                   /\ failed_assert' \in ClosedAsserts
                   /\ file' = file
                   /\ rep' = rep ]_vars

\* Add was called on a builder closed by a Finish that wrote a footer, and
\* its assert ended the program.
ClosedBuilderWitness ==
  /\ closed_calls = 1
  /\ last_op = "Add"
  /\ assertion = "aborted"
  /\ failed_assert = "Add: !closed"
  /\ rep.closed
  /\ ret.op = "Finish"
  /\ Contents("footer") # {}

\* ----------------------------------------------------------------- C12
\* C12: Abandon on an open builder sets closed and changes no other field
\* of the builder (offset, status, counters, data block, index block,
\* pending index entry, ...); it appends nothing to the sink and makes no
\* call on the filter builder.
AbandonOnlyCloses ==
  [][ (~rep.closed /\ last_op' = "Abandon")
        => /\ rep' = [rep EXCEPT !.closed = TRUE]
           /\ file' = file
           /\ filter_block' = filter_block
           /\ assertion' = assertion ]_vars

\* Abandon was called with a data block written, its index entry pending
\* and entries waiting in the block being built: none of them was written.
AbandonOnlyClosesWitness ==
  /\ last_op = "Abandon"
  /\ rep.closed
  /\ rep.status = OK
  /\ rep.data_block # <<>>
  /\ Len(rep.index_block) = 1
  /\ Cardinality(Written("data")) = 1
  /\ \A i \in 1..Len(file) : file[i].kind = "data"

\* ----------------------------------------------------------------- C13
\* C13: a ChangeOptions call with another comparator returns an invalid
\* argument error and leaves the options, the index block options and the
\* status as they were; with the same comparator it returns OK and the
\* options are the ones passed; the index block's restart interval is 1 in
\* every state.
ChangeOptionsChecksComparator ==
  /\ [](rep.index_block_options.block_restart_interval = 1)
  /\ [][ last_op' = "ChangeOptions" =>
           LET options == ret'.options
           IN /\ rep'.status = rep.status
              /\ file' = file
              /\ rep'.index_block_options.block_restart_interval = 1
              /\ IF options.comparator # rep.options.comparator
                 THEN /\ ret'.status = InvalidArgument
                      /\ rep' = rep
                 ELSE /\ ret'.status = OK
                      /\ rep' = [rep EXCEPT
                                   !.options = options,
                                   !.index_block_options =
                                      [options EXCEPT
                                         !.block_restart_interval = 1]] ]_vars

\* The options of a builder that held entries were replaced by options
\* with another block size and a restart interval other than 1.
ChangeOptionsWitness ==
  /\ last_op = "ChangeOptions"
  /\ ret.op = "ChangeOptions"
  /\ ret.status = OK
  /\ rep.options = ret.options
  /\ rep.num_entries > 0
  /\ rep.options.block_size = 4
  /\ rep.options.block_restart_interval # 1
  /\ rep.index_block_options.block_size = 4
  /\ rep.index_block_options.block_restart_interval = 1

\* ------------------------------------------------------------------ C14
\* The counted records of a sequence of records, in order.
CountedRecords(log) == SelectSeq(log, Counted)

\* The entries a replay of `log` from sequence s leaves in a memtable.
EntriesOf(log, s) ==
  {Entry(CountedRecords(log)[i], s + i - 1) :
     i \in 1..Len(CountedRecords(log))}

\* The replay just made was of a batch of the given shape.
ReplayedShape(shape) ==
  /\ batch_ret.op = "PrintContents"
  /\ batch_log[batch_ret.batch].shape = shape

\* C14: replaying a well-formed batch with header sequence s succeeds and
\* inserts the i-th counted record (0-based, in the order added) with
\* sequence s + i; log data is not inserted and takes no sequence number,
\* so the sequences used are exactly s .. s + Count - 1.
ReplaySequences ==
  ReplayedShape("valid") =>
    LET b == batch[batch_ret.batch]
        log == batch_log[batch_ret.batch].log
    IN /\ batch_ret.status = OK
       /\ mem = EntriesOf(log, b.sequence)
       /\ \A e \in mem : e.type # kTypeLogData
       /\ {e.sequence : e \in mem} = b.sequence .. (b.sequence + b.count - 1)

\* A batch with sequence 4 and log data between two counted records has
\* been replayed.
ReplaySequencesWitness ==
  /\ ReplayedShape("valid")
  /\ batch[batch_ret.batch].sequence = 4
  /\ Cardinality(mem) = 2
  /\ LET log == batch_log[batch_ret.batch].log
     IN /\ Len(log) = 3
        /\ log[2].kind = "LogData"

\* ------------------------------------------------------------------ C15
\* The memtable a replay of b2's records from sequence s gives.
ReplayAt(b, s) == InsertInto(SetSequence(b, s)).mem

\* What Append(b1, b2) is said to do, in a step from b1, b2 to b1', b2'.
AppendAlgebra ==
  /\ batch'["b1"].sequence = batch["b1"].sequence
  /\ batch'["b1"].count = batch["b1"].count + batch["b2"].count
  /\ batch'["b2"] = batch["b2"]
  /\ InsertInto(batch'["b1"]).mem =
       InsertInto(batch["b1"]).mem
         \cup ReplayAt(batch["b2"], batch["b1"].sequence + batch["b1"].count)

RECURSIVE WholeRecords(_, _)
WholeRecords(log, size) ==
  IF log = <<>> \/ Len(EncodeRecord(Head(log))) > size THEN 0
  ELSE 1 + WholeRecords(Tail(log), size - Len(EncodeRecord(Head(log))))

\* C16: replaying a valid batch whose payload was cut inside a record fails
\* with a Corruption naming the kind of the first incomplete record; the
\* records before the cut are in the memtable with their sequences, and no
\* record at or after the cut is.
TruncatedReplay ==
  ReplayedShape("truncated") =>
    LET b == batch[batch_ret.batch]
        log == batch_log[batch_ret.batch].log
        whole == WholeRecords(log, Len(b.rep))
    IN /\ whole < Len(log)
       /\ batch_ret.status = Corruption(log[whole + 1].kind)
       /\ batch_ret.tail = batch_ret.status
       /\ mem = EntriesOf(SubSeq(log, 1, whole), b.sequence)

\* A batch cut inside its third record, after two counted records, has been
\* replayed.
TruncatedReplayWitness ==
  /\ ReplayedShape("truncated")
  /\ Len(batch_log[batch_ret.batch].log) = 3
  /\ Cardinality(mem) = 2
  /\ batch_ret.status.code = "Corruption"

\* ------------------------------------------------------------------ C17
\* The counted records a walk over the payload finds.
PayloadCount(b) == Len(CountedRecords(Iterate(b.rep).seen))

\* C17: a batch that Put, Delete, Merge, PutLogData, Clear and Append made
\* has a count equal to the number of Put, Delete and Merge records in its
\* payload; the count is 0 for a new or cleared batch; a successful replay
\* inserts exactly Count() entries.
CountIsCountedRecords ==
  /\ \A n \in BatchNames :
       /\ batch_log[n].shape = "valid" =>
            /\ batch[n].count = PayloadCount(batch[n])
            /\ batch[n].count = Len(CountedRecords(batch_log[n].log))
       /\ batch_ret.op \in {"none", "Clear"} /\ batch_ret.batch \in {n, "none"}
            => batch[n].count = 0
  /\ ReplayedShape("valid") /\ batch_ret.status = OK
       => /\ Cardinality(mem) = batch[batch_ret.batch].count
          /\ batch_ret.tail = OK

\* A batch with log data and three counted records, two of them appended,
\* has been replayed.
CountIsCountedRecordsWitness ==
  /\ ReplayedShape("valid")
  /\ batch["b1"].count = 3
  /\ batch["b2"].count = 2
  /\ Len(batch_log["b2"].log) = 2
  /\ Cardinality(mem) = 3

\* ------------------------------------------------------------------ C18
\* C18: Iterate on a well-formed batch calls the handler once per record,
\* log data included, in the order the records were added, with the
\* record's kind and its key and value or blob, whatever the keys and the
\* sequences are.
IterateInOrder ==
  batch_ret.op = "Iterate" /\ batch_log[batch_ret.batch].shape = "valid" =>
    /\ batch_ret.status = OK
    /\ seen = batch_log[batch_ret.batch].log

\* The handler has seen a Put, log data and then a Delete of a smaller key.
IterateInOrderWitness ==
  /\ batch_ret.op = "Iterate"
  /\ batch_log[batch_ret.batch].shape = "valid"
  /\ Len(seen) = 3
  /\ seen[1].kind = "Put"
  /\ seen[2].kind = "LogData"
  /\ seen[3].kind = "Delete"
  /\ seen[3].key = <<1>> /\ seen[1].key = <<2>>

\* ------------------------------------------------------------------ C19
\* The two asserts on the pending index entry.
PendingAsserts == {"Add: data_block.empty()", "Flush: !pending_index_entry"}

\* C19: in every state, pending_index_entry is true only if the data block
\* is empty, and neither assert(data_block.empty()) in Add nor
\* assert(!pending_index_entry) in Flush has failed.
PendingOnlyIfEmpty ==
  /\ rep.pending_index_entry => rep.data_block = <<>>
  /\ failed_assert \notin PendingAsserts

\* An index entry has been emitted by Add, and a later block's entry is
\* pending after a Flush whose sink flush failed.
PendingOnlyIfEmptyWitness ==
  /\ rep.pending_index_entry
  /\ rep.status # OK
  /\ Len(rep.index_block) >= 1
  /\ last_op = "Flush"

\* ------------------------------------------------------------------ C20
\* The position in the sink of the k-th data block written.
NthData(k) ==
  CHOOSE i \in Written("data") :
    Cardinality({j \in Written("data") : j <= i}) = k

\* The index entries against the data blocks in the sink, in one state.
IndexEntriesMatchBlocks ==
  /\ rep.status = OK =>
       Len(IndexEntries) + (IF rep.pending_index_entry THEN 1 ELSE 0)
         = Cardinality(Written("data"))
  /\ ret.op = "Finish" /\ ret.status = OK =>
       /\ Len(IndexEntries) = Cardinality(Written("data"))
       /\ \A k \in 1..Len(IndexEntries) :
            IndexEntries[k].handle = HandleOf(NthData(k))
  /\ \A k \in 2..Cardinality(Written("data")) :
       file[NthData(k)].at =
         file[NthData(k - 1)].at + file[NthData(k - 1)].size
           + kBlockTrailerSize
  /\ \A i \in Contents("data") : file[i].content.entries # <<>>

\* C20: in every state, while status is ok, the index entries plus the
\* pending one are as many as the data blocks written; when Finish has
\* returned ok the index block holds one entry per data block, in file
\* order, with that block's handle; each data block starts where the one
\* before it ends, trailer included; no data block is written empty; and
\* in no step is a pending handle replaced while its entry stays pending.
OneIndexEntryPerBlock ==
  /\ []IndexEntriesMatchBlocks
  /\ [][ rep.pending_index_entry /\ rep'.pending_index_entry =>
           /\ rep'.pending_handle = rep.pending_handle
           /\ rep'.index_block = rep.index_block ]_vars

\* Finish has returned ok with two data blocks in the sink.
OneIndexEntryPerBlockWitness ==
  /\ ret.op = "Finish"
  /\ ret.status = OK
  /\ Cardinality(Written("data")) >= 2
  /\ Len(IndexEntries) >= 2
  /\ IndexEntries[2].handle.offset > 0

\* ------------------------------------------------------------------ C21
\* The names of the entries of the metaindex block in the sink.
MetaindexNames ==
  UNION { {file[i].content.entries[j].name :
             j \in 1..Len(file[i].content.entries)} :
          i \in Contents("metaindex") }

\* The names a filter entry of the metaindex may have.
FilterEntryNames == {"filter.Name", "filter.garbage"}

\* A metaindex block has a filter entry exactly when a filter block was
\* written.
FilterEntryIffFilterBlock ==
  Contents("metaindex") # {}
    => (MetaindexNames \cap FilterEntryNames # {} <=> Written("filter") # {})

\* C21: whatever ChangeOptions calls succeeded before Finish, Finish has
\* not read the name of an absent filter policy (it neither ended there nor
\* wrote an entry named by what the read returned); when a filter block and
\* a metaindex block are in the sink after Finish, the options in force hold
\* a filter policy; and a metaindex block has a filter entry exactly when a
\* filter block was written.
FilterPolicyHeldAtFinish ==
  /\ failed_assert # "Finish: filter_policy != nullptr"
  /\ "filter.garbage" \notin MetaindexNames
  /\ Written("filter") # {} /\ Contents("metaindex") # {}
       => rep.options.filter_policy
  /\ FilterEntryIffFilterBlock

====
